---------------------------- MODULE Spec2Model ----------------------------
(***************************************************************************)
(* Model of tide's ServeDir endpoint (src/fs/serve_dir.rs).                *)
(*                                                                         *)
(* A character is its Unicode scalar value (Rust's char) and a string is a *)
(* sequence of characters, so that strip_prefix, trim_start_matches,       *)
(* trim_end_matches and the percent-encoding of the URL parser are         *)
(* computed character by character as the code computes them, for every    *)
(* character.  Str writes a string from its printable ASCII characters.    *)
(* File contents and error texts are opaque TLA+ strings.                  *)
(***************************************************************************)
EXTENDS Naturals, Sequences, FiniteSets

VARIABLES prefix, dir, fs, calls

vars == <<prefix, dir, fs, calls>>

-----------------------------------------------------------------------------
(* Bounds of the model.                                                    *)

\* Number of invocations of ServeDir::call that may be in flight together.
NumCalls == 2

\* Largest number of redundant '/' put between the prefix and the rest.
MaxSlashes == 2

-----------------------------------------------------------------------------
(* Text helpers.                                                           *)

\* The printable ASCII characters U+0020..U+005F and U+0061..U+007E.
AsciiFrom32 ==
    << " ", "!", "\"", "#", "$", "%", "&", "'", "(", ")", "*", "+", ",", "-",
       ".", "/", "0", "1", "2", "3", "4", "5", "6", "7", "8", "9", ":", ";",
       "<", "=", ">", "?", "@", "A", "B", "C", "D", "E", "F", "G", "H", "I",
       "J", "K", "L", "M", "N", "O", "P", "Q", "R", "S", "T", "U", "V", "W",
       "X", "Y", "Z", "[", "\\", "]", "^", "_" >>
AsciiFrom97 ==
    << "a", "b", "c", "d", "e", "f", "g", "h", "i", "j", "k", "l", "m", "n",
       "o", "p", "q", "r", "s", "t", "u", "v", "w", "x", "y", "z", "{", "|",
       "}", "~" >>

\* The scalar value of a printable ASCII character, and the string of a
\* sequence of them.
Char(c) ==
    IF \E n \in 1..Len(AsciiFrom32) : AsciiFrom32[n] = c
    THEN 31 + (CHOOSE n \in 1..Len(AsciiFrom32) : AsciiFrom32[n] = c)
    ELSE 96 + (CHOOSE n \in 1..Len(AsciiFrom97) : AsciiFrom97[n] = c)
Str(s) == [n \in 1..Len(s) |-> Char(s[n])]

Slash == Char("/")
Star == Char("*")
Dot == Str(<<".">>)
DotDot == Str(<<".", ".">>)

STATIC == Str(<<"s", "t", "a", "t", "i", "c">>)
FOO == Str(<<"f", "o", "o">>)
BAR == Str(<<"b", "a", "r">>)
SECRET == Str(<<"s", "e", "c", "r", "e", "t">>)
SUB == Str(<<"s", "u", "b">>)
PRIV == Str(<<"p", "r", "i", "v">>)
LINK == Str(<<"l", "i", "n", "k">>)
LOOP == Str(<<"l", "o", "o", "p">>)
ELSEWHERE == Str(<<"e", "l", "s", "e", "w", "h", "e", "r", "e">>)
SPACED == Str(<<"a", " ", "b">>)

Front(s) == SubSeq(s, 1, Len(s) - 1)

IsPrefixOf(p, s) == Len(p) <= Len(s) /\ SubSeq(s, 1, Len(p)) = p

\* The first index in s of a character of set cs, or 0.
IndexOfAny(s, cs) ==
    IF \E i \in 1..Len(s) : s[i] \in cs
    THEN CHOOSE i \in 1..Len(s) : s[i] \in cs /\ \A j \in 1..(i - 1) : s[j] \notin cs
    ELSE 0

\* s split at every character of cs: n separators give n + 1 pieces, empty
\* pieces included.
RECURSIVE SplitAt(_, _)
SplitAt(s, cs) ==
    LET i == IndexOfAny(s, cs) IN
    IF i = 0 THEN <<s>>
    ELSE <<SubSeq(s, 1, i - 1)>> \o SplitAt(SubSeq(s, i + 1, Len(s)), cs)

\* str::split('/')
SplitSlash(s) == SplitAt(s, {Slash})

\* "/" + segment, for every segment.
RECURSIVE JoinSlash(_)
JoinSlash(segs) ==
    IF segs = <<>> THEN <<>>
    ELSE <<Slash>> \o Head(segs) \o JoinSlash(Tail(segs))

RECURSIVE Slashes(_)
Slashes(k) == IF k = 0 THEN <<>> ELSE <<Slash>> \o Slashes(k - 1)

-----------------------------------------------------------------------------
(* The request: test::request builds the URL "http://localhost/" + path    *)
(* with Url::parse, and call reads req.url().path().  For the scheme http  *)
(* the parser strips trailing spaces and control characters from its       *)
(* input, removes every tab and newline, ends the path at the first '?' or *)
(* '#', splits it at '/' and at '\', percent-encodes the characters of the *)
(* path set, and resolves the "." and ".." segments, written plainly or    *)
(* with "%2e".  Empty segments are kept and the path starts with '/'.      *)
(* Nothing is percent-decoded.                                             *)

Backslash == Char("\\")
Space == Char(" ")
Tab == 9
Newline == 10
FormFeed == 12
Return13 == 13
Backtick == 96
Delete == 127
\* U+00E9, e with an acute accent.
EAcute == 233

\* The C0 control characters U+0000..U+001F and the space.
C0ControlOrSpace == 0..Space
TabOrNewline == {Tab, Newline, Return13}
PathSeparators == {Slash, Backslash}
PathTerminators == {Char("?"), Char("#")}

RECURSIVE TrimEnd(_, _)
TrimEnd(s, cs) ==
    IF s # <<>> /\ s[Len(s)] \in cs THEN TrimEnd(Front(s), cs) ELSE s

\* The input up to its query or fragment.
PathPart(s) ==
    LET i == IndexOfAny(s, PathTerminators) IN
    IF i = 0 THEN s ELSE SubSeq(s, 1, i - 1)

\* The printable characters of the path set: space, '"', '#', '<', '>',
\* '?', '`', '{' and '}'.
PathSetPrintable ==
    { Space, Char("\""), Char("#"), Char("<"), Char(">"), Char("?"),
      Backtick, Char("{"), Char("}") }

\* The path set: the C0 controls, the printable characters above, DEL and
\* every character outside ASCII.
InPathSet(c) == c < Space \/ c \in PathSetPrintable \/ c >= Delete

HexDigits ==
    Str(<< "0", "1", "2", "3", "4", "5", "6", "7",
           "8", "9", "A", "B", "C", "D", "E", "F" >>)

\* The UTF-8 bytes of a character.
Utf8(cp) ==
    IF cp < 128 THEN <<cp>>
    ELSE IF cp < 2048 THEN <<192 + (cp \div 64), 128 + (cp % 64)>>
    ELSE IF cp < 65536
    THEN <<224 + (cp \div 4096), 128 + ((cp \div 64) % 64), 128 + (cp % 64)>>
    ELSE <<240 + (cp \div 262144), 128 + ((cp \div 4096) % 64),
           128 + ((cp \div 64) % 64), 128 + (cp % 64)>>

Percent == Char("%")

\* "%XX" for every byte.
RECURSIVE PercentBytes(_)
PercentBytes(bytes) ==
    IF bytes = <<>> THEN <<>>
    ELSE <<Percent, HexDigits[(Head(bytes) \div 16) + 1],
                    HexDigits[(Head(bytes) % 16) + 1]>>
           \o PercentBytes(Tail(bytes))

\* utf8_percent_encode with the path set; '%' and every other character
\* are left as they are.
PercentEncode(c) == IF InPathSet(c) THEN PercentBytes(Utf8(c)) ELSE <<c>>

RECURSIVE EncodeSegment(_)
EncodeSegment(seg) ==
    IF seg = <<>> THEN <<>>
    ELSE PercentEncode(Head(seg)) \o EncodeSegment(Tail(seg))

\* The spellings of the single-dot and double-dot segments.
DotForms == { Dot, Str(<<"%", "2", "e">>), Str(<<"%", "2", "E">>) }
DotDotForms == { a \o b : a \in DotForms, b \in DotForms }

RECURSIVE ResolveDots(_, _)
ResolveDots(segs, out) ==
    IF segs = <<>> THEN out
    ELSE LET b == Head(segs)
             last == Len(segs) = 1
             popped == IF out = <<>> THEN out ELSE Front(out)
         IN  IF b \in DotDotForms
             THEN ResolveDots(Tail(segs), IF last THEN Append(popped, <<>>) ELSE popped)
             ELSE IF b \in DotForms
             THEN ResolveDots(Tail(segs), IF last THEN Append(out, <<>>) ELSE out)
             ELSE ResolveDots(Tail(segs), Append(out, b))

\* The segments the parser sees in the text after "http://localhost/".
RawSegments(arg) ==
    LET stripped == TrimEnd(arg, C0ControlOrSpace)
        cleaned == SelectSeq(stripped, LAMBDA c : c \notin TabOrNewline)
        segs == SplitAt(PathPart(cleaned), PathSeparators)
    IN  [n \in 1..Len(segs) |-> EncodeSegment(segs[n])]

\* req.url().path() of request(arg).
UrlPath(arg) == JoinSlash(ResolveDots(RawSegments(arg), <<>>))

-----------------------------------------------------------------------------
(* Rust string functions used by call.                                     *)

RECURSIVE trim_end_matches(_, _)
trim_end_matches(s, c) ==
    IF s # <<>> /\ s[Len(s)] = c THEN trim_end_matches(Front(s), c) ELSE s

RECURSIVE trim_start_matches(_, _)
trim_start_matches(s, c) ==
    IF s # <<>> /\ Head(s) = c THEN trim_start_matches(Tail(s), c) ELSE s

\* Option<&str>: some = FALSE is None.
strip_prefix(s, p) ==
    IF IsPrefixOf(p, s)
    THEN [some |-> TRUE, val |-> SubSeq(s, Len(p) + 1, Len(s))]
    ELSE [some |-> FALSE, val |-> <<>>]


-----------------------------------------------------------------------------
(* The file tree and the capability open (cap_async_std::fs::Dir::open).   *)
(* An entry is a file, a directory, a symbolic link with an absolute       *)
(* target, or a symbolic link that names itself.  readable = FALSE is a    *)
(* node of mode 000.                                                       *)

FileEntry(p, r, data) ==
    [path |-> p, kind |-> "file", readable |-> r, data |-> data, target |-> <<>>]
DirEntry(p, r) ==
    [path |-> p, kind |-> "dir", readable |-> r, data |-> "", target |-> <<>>]
LinkEntry(p, target) ==
    [path |-> p, kind |-> "link", readable |-> TRUE, data |-> "", target |-> target]
SelfLinkEntry(p) ==
    [path |-> p, kind |-> "selflink", readable |-> TRUE, data |-> "", target |-> <<>>]

\* The directory the tests serve: <tempdir>/static, here /static.
StaticDir == <<STATIC>>

\* The tree of setup_static_dir: static/foo holds "Foobar".  /secret is a
\* file outside the served directory.
TestTree ==
    { DirEntry(<<>>, TRUE),
      DirEntry(StaticDir, TRUE),
      FileEntry(<<STATIC, FOO>>, TRUE, "Foobar"),
      FileEntry(<<SECRET>>, TRUE, "TopSecret") }

\* The same with a subdirectory, a file whose name holds a space, a
\* directory of mode 000, a link that leaves the served directory and a link
\* that names itself.
RichTree ==
    TestTree \cup
    { DirEntry(<<STATIC, SUB>>, TRUE),
      FileEntry(<<STATIC, SUB, FOO>>, TRUE, "Nested"),
      FileEntry(<<STATIC, SPACED>>, TRUE, "Spaced"),
      DirEntry(<<STATIC, PRIV>>, FALSE),
      FileEntry(<<STATIC, PRIV, FOO>>, TRUE, "Private"),
      LinkEntry(<<STATIC, LINK>>, <<SECRET>>),
      SelfLinkEntry(<<STATIC, LOOP>>) }

\* The trees the model starts from.
Trees == {RichTree}

Has(t, p) == \E e \in t : e.path = p
Entry(t, p) == CHOOSE e \in t : e.path = p

\* io::Result<File>
OpenErr(kind, text) ==
    [ok |-> FALSE, kind |-> kind, text |-> text,
     isDir |-> FALSE, data |-> "", origin |-> "none"]
OpenOk(root, e) ==
    [ok |-> TRUE, kind |-> "none", text |-> "",
     isDir |-> e.kind = "dir", data |-> e.data,
     origin |-> IF IsPrefixOf(root, e.path) THEN "inside" ELSE "outside"]

EscapeAttempt == OpenErr("PermissionDenied", "a path led outside of the filesystem")
EACCES == OpenErr("PermissionDenied", "Permission denied (os error 13)")
ENOENT == OpenErr("NotFound", "No such file or directory (os error 2)")
ENOTDIR == OpenErr("NotADirectory", "Not a directory (os error 20)")
ELOOP == OpenErr("FilesystemLoop", "Too many levels of symbolic links (os error 40)")

\* The non-empty components of a path, and whether it ends in '/'.
Components(path) == SelectSeq(SplitSlash(path), LAMBDA c : c # <<>>)
TrailingSlash(path) == path # <<>> /\ path[Len(path)] = Slash

\* Path resolution, one component at a time, from directory cur.  beneath
\* is the capability discipline: no step may leave root.  Without it the
\* resolution is the ambient one of std::fs.
RECURSIVE Walk(_, _, _, _, _, _)
Walk(t, root, cur, comps, mustDir, beneath) ==
    IF comps = <<>> THEN OpenOk(root, Entry(t, cur))
    ELSE
      LET c == Head(comps)
          rest == Tail(comps)
          p == Append(cur, c)
      IN
      IF c = Dot THEN Walk(t, root, cur, rest, mustDir, beneath)
      ELSE IF c = DotDot
      THEN IF beneath /\ cur = root THEN EscapeAttempt
           ELSE Walk(t, root, IF cur = <<>> THEN cur ELSE Front(cur),
                     rest, mustDir, beneath)
      ELSE IF ~Has(t, p) THEN ENOENT
      ELSE
        LET e == Entry(t, p) IN
        CASE e.kind = "file" ->
               IF rest # <<>> \/ mustDir THEN ENOTDIR
               ELSE IF ~e.readable THEN EACCES
               ELSE OpenOk(root, e)
          [] e.kind = "dir" ->
               IF ~e.readable THEN EACCES
               ELSE Walk(t, root, p, rest, mustDir, beneath)
          [] e.kind = "link" ->
               IF beneath THEN EscapeAttempt
               ELSE Walk(t, root, <<>>, e.target \o rest, mustDir, beneath)
          [] e.kind = "selflink" -> ELOOP

\* Dir::open(path) on the directory handle root.
DirOpen(t, root, path) ==
    IF path = <<>> THEN ENOENT
    ELSE IF Head(path) = Slash THEN EscapeAttempt
    ELSE Walk(t, root, root, Components(path), TrailingSlash(path), TRUE)

\* std::fs::File::open(root.join(path)): what an open without the
\* capability discipline resolves to.
AmbientOpen(t, root, path) ==
    IF path = <<>> THEN Walk(t, root, root, <<>>, FALSE, FALSE)
    ELSE IF Head(path) = Slash
    THEN Walk(t, root, <<>>, Components(path), TrailingSlash(path), FALSE)
    ELSE Walk(t, root, root, Components(path), TrailingSlash(path), FALSE)

-----------------------------------------------------------------------------
(* ServeDir::call.                                                         *)

Ok == 200
Forbidden == 403
NotFound == 404

Info(path) == [level |-> "info", msg |-> "Requested file", path |-> path]
WarnDenied(path) ==
    [level |-> "warn", msg |-> "Unauthorized attempt to read", path |-> path]
WarnMissing(path) == [level |-> "warn", msg |-> "File not found", path |-> path]

\* What call hands back: tag "Ok" is Ok(Response), tag "Err" is Err(e) with
\* e's kind in err.  body is the text the client reads; readErr says that
\* reading the body fails (the handle is a directory); origin says where
\* the streamed file lives.
NoRes ==
    [tag |-> "none", status |-> 0, body |-> "", readErr |-> FALSE,
     origin |-> "none", err |-> "none"]
Response(status) ==
    [tag |-> "Ok", status |-> status, body |-> "", readErr |-> FALSE,
     origin |-> "none", err |-> "none"]
\* Body::from_reader(BufReader::new(file), None)
FileResponse(file) ==
    [tag |-> "Ok", status |-> Ok, body |-> file.data, readErr |-> file.isDir,
     origin |-> file.origin, err |-> "none"]
Failure(e) ==
    [tag |-> "Err", status |-> 0, body |-> "", readErr |-> FALSE,
     origin |-> "none", err |-> e.kind]

\* Variants of RelativePath: one leading '/' is removed, not all of them;
\* the '*' is kept.
RelativePathTrimOne(pfx, url) ==
    LET sp == strip_prefix(url, trim_end_matches(pfx, Star)) IN
    [some |-> sp.some,
     val |-> IF sp.val # <<>> /\ Head(sp.val) = Slash THEN Tail(sp.val) ELSE sp.val]
RelativePathWithStar(pfx, url) ==
    LET sp == strip_prefix(url, pfx) IN
    [some |-> sp.some, val |-> trim_start_matches(sp.val, Slash)]

\* The path handed to the open: the prefix without its trailing '*' is
\* stripped from the URL path, then the leading '/' are trimmed.  None is
\* the case on which unwrap panics.
RelativePath(pfx, url) ==
    LET sp == strip_prefix(url, trim_end_matches(pfx, Star)) IN
    [some |-> sp.some, val |-> trim_start_matches(sp.val, Slash)]

\* The locals of an invocation.  opens counts the opens it has attempted and
\* opened is what the open returned.
NotOpened == OpenErr("none", "")

IdleCall ==
    [pc |-> "idle", arg |-> <<>>, url |-> <<>>, path |-> <<>>,
     log |-> <<>>, opens |-> 0, opened |-> NotOpened, res |-> NoRes]

\* Variant of StartCall: a mismatch is answered 404 instead of unwrapped.
StartCallDefensive(pfx, arg) ==
    LET url == UrlPath(arg)
        rp == RelativePath(pfx, url)
    IN  IF ~rp.some
        THEN [IdleCall EXCEPT !.pc = "done", !.arg = arg, !.url = url,
                              !.res = Response(NotFound)]
        ELSE [IdleCall EXCEPT !.pc = "opening", !.arg = arg, !.url = url,
                              !.path = rp.val, !.log = <<Info(rp.val)>>]

\* call up to its await: the state of the invocation for request(arg).
StartCall(pfx, arg) ==
    LET url == UrlPath(arg)
        rp == RelativePath(pfx, url)
    IN  IF ~rp.some
        THEN [IdleCall EXCEPT !.pc = "panicked", !.arg = arg, !.url = url]
        ELSE [IdleCall EXCEPT !.pc = "opening", !.arg = arg, !.url = url,
                              !.path = rp.val, !.log = <<Info(rp.val)>>]

\* Variant of OpenIn: the file is opened with ambient authority.
OpenInAmbient(t, root, path) == AmbientOpen(t, root, path)

\* self.dir.open(path)
OpenIn(t, root, path) == DirOpen(t, root, path)

\* Variants of MatchOpen: the 403 carries the error's text; every failure
\* that is not PermissionDenied is answered 404; every failure is logged
\* as a warning.
MatchOpenLeaking(r, path) ==
    IF r.ok THEN [res |-> FileResponse(r), log |-> <<>>]
    ELSE IF r.kind = "PermissionDenied"
    THEN [res |-> [Response(Forbidden) EXCEPT !.body = r.text],
          log |-> <<WarnDenied(path)>>]
    ELSE IF r.kind = "NotFound"
    THEN [res |-> Response(NotFound), log |-> <<WarnMissing(path)>>]
    ELSE [res |-> Failure(r), log |-> <<>>]
MatchOpenSwallowing(r, path) ==
    IF r.ok THEN [res |-> FileResponse(r), log |-> <<>>]
    ELSE IF r.kind = "PermissionDenied"
    THEN [res |-> Response(Forbidden), log |-> <<WarnDenied(path)>>]
    ELSE [res |-> Response(NotFound), log |-> <<WarnMissing(path)>>]
MatchOpenWarningAll(r, path) ==
    IF r.ok THEN [res |-> FileResponse(r), log |-> <<>>]
    ELSE IF r.kind = "PermissionDenied"
    THEN [res |-> Response(Forbidden), log |-> <<WarnDenied(path)>>]
    ELSE IF r.kind = "NotFound"
    THEN [res |-> Response(NotFound), log |-> <<WarnMissing(path)>>]
    ELSE [res |-> Failure(r), log |-> <<WarnMissing(path)>>]

\* The match on the open's result: the response or error, and the log
\* lines of the arm taken.
MatchOpen(r, path) ==
    IF r.ok THEN [res |-> FileResponse(r), log |-> <<>>]
    ELSE IF r.kind = "PermissionDenied"
    THEN [res |-> Response(Forbidden), log |-> <<WarnDenied(path)>>]
    ELSE IF r.kind = "NotFound"
    THEN [res |-> Response(NotFound), log |-> <<WarnMissing(path)>>]
    ELSE [res |-> Failure(r), log |-> <<>>]

\* Variant of PathOf: the path is kept in one place shared by all
\* invocations (here the first invocation's).
PathOfShared(i) == calls[1].path

\* The local variable path of invocation i.
PathOf(i) == calls[i].path

-----------------------------------------------------------------------------
(* The requests of the model: request(arg) for arg = "static/" followed by *)
(* one of Rels, the same with up to MaxSlashes more '/' before two of      *)
(* them, one that is not under "/static/", and three written with the      *)
(* characters the URL parser rewrites.                                     *)

Rel(a, b) == a \o <<Slash>> \o b

Rels ==
    { FOO, BAR, Rel(SUB, FOO), Rel(FOO, BAR), Rel(PRIV, FOO),
      LINK, LOOP, Rel(STATIC, FOO), Rel(DotDot, FOO), SPACED }

SlashedRels == { Rel(SUB, FOO), Rel(DotDot, FOO) }

Under(k, rel) == STATIC \o <<Slash>> \o Slashes(k) \o rel

\* "static/%2e%2E/foo", "static\foo?x" and
\* "static/<tab>e-acute<form feed>#x <form feed>".
EncodedTraversal == Under(0, Rel(Str(<<"%", "2", "e", "%", "2", "E">>), FOO))
BackslashQuery == STATIC \o <<Backslash>> \o FOO \o Str(<<"?", "x">>)
TabFragment ==
    Under(0, <<Tab, EAcute, FormFeed, Char("#"), Char("x"), Space, FormFeed>>)

Args ==
    { Under(0, rel) : rel \in Rels }
      \cup { Under(k, rel) : k \in 1..MaxSlashes, rel \in SlashedRels }
      \cup { Rel(ELSEWHERE, FOO), EncodedTraversal, BackslashQuery, TabFragment }

Prefixes == { <<Slash>> \o STATIC \o <<Slash>>,
              <<Slash>> \o STATIC \o <<Slash, Star>> }

Calls == 1..NumCalls

-----------------------------------------------------------------------------
(* The state machine.                                                      *)

Init ==
    /\ prefix \in Prefixes
    /\ dir = StaticDir
    /\ fs \in Trees
    /\ calls = [i \in Calls |-> IdleCall]

\* The framework invokes call with request(arg); call runs to its await.
Call(i, arg) ==
    /\ calls[i].pc = "idle"
    /\ calls' = [calls EXCEPT ![i] = StartCall(prefix, arg)]
    /\ UNCHANGED <<prefix, dir, fs>>

\* The open completes and call returns.
Open(i) ==
    /\ calls[i].pc = "opening"
    /\ LET r == OpenIn(fs, dir, PathOf(i))
           m == MatchOpen(r, PathOf(i))
       IN  calls' = [calls EXCEPT ![i] =
                       [@ EXCEPT !.pc = "done", !.opens = @ + 1, !.opened = r,
                                 !.log = @ \o m.log, !.res = m.res]]
    /\ UNCHANGED <<prefix, dir, fs>>

\* The framework has consumed the result (or the panic has unwound): the
\* invocation's locals are dropped.
Return(i) ==
    /\ calls[i].pc \in {"done", "panicked"}
    /\ calls' = [calls EXCEPT ![i] = IdleCall]
    /\ UNCHANGED <<prefix, dir, fs>>

Next ==
    \/ \E i \in Calls, arg \in Args : Call(i, arg)
    \/ \E i \in Calls : Open(i)
    \/ \E i \in Calls : Return(i)

Spec == Init /\ [][Next]_vars

-----------------------------------------------------------------------------
(* Vocabulary of the properties.                                           *)

StaticPrefix == <<Slash>> \o STATIC \o <<Slash>>

Active(i) == calls[i].pc # "idle"
Done(i) == calls[i].pc = "done"
Panicked(i) == calls[i].pc = "panicked"

\* The URL path of invocation i without its first n characters.
After(i, n) == SubSeq(calls[i].url, n + 1, Len(calls[i].url))

\* The regular, readable files under root whose ancestors up to root are
\* readable directories, and the path of an entry relative to root.
ServedFiles(t, root) ==
    { e \in t :
        /\ e.kind = "file" /\ e.readable
        /\ IsPrefixOf(root, e.path) /\ Len(e.path) > Len(root)
        /\ \A n \in Len(root)..(Len(e.path) - 1) :
             \E d \in t : d.path = SubSeq(e.path, 1, n)
                          /\ d.kind = "dir" /\ d.readable }
RelOf(root, e) == Tail(JoinSlash(SubSeq(e.path, Len(root) + 1, Len(e.path))))

\* The relative paths of the model without "." or ".." segments that name
\* no entry under root.
PlainRels ==
    { rel \in Rels : rel # <<>> /\
        \A n \in 1..Len(SplitSlash(rel)) : SplitSlash(rel)[n] \notin {Dot, DotDot} }
MissingRels(t, root) == { rel \in PlainRels : ~Has(t, root \o SplitSlash(rel)) }

\* The request's path after "static/" climbs above the served directory.
RECURSIVE Climbs(_, _)
Climbs(segs, depth) ==
    IF segs = <<>> THEN FALSE
    ELSE IF Head(segs) \in DotDotForms
    THEN depth = 0 \/ Climbs(Tail(segs), depth - 1)
    ELSE IF Head(segs) \in DotForms \cup {<<>>} THEN Climbs(Tail(segs), depth)
    ELSE Climbs(Tail(segs), depth + 1)
TraversalRequest(arg) ==
    /\ Head(RawSegments(arg)) = STATIC
    /\ Climbs(Tail(RawSegments(arg)), 0)

\* The path, resolved with ambient authority, names a file outside root.
LeadsOutside(t, root, path) ==
    AmbientOpen(t, root, path).ok /\ AmbientOpen(t, root, path).origin = "outside"

HasDotDot(str) ==
    \E n \in 1..Len(SplitSlash(str)) : SplitSlash(str)[n] \in DotDotForms

Warnings(i) == SelectSeq(calls[i].log, LAMBDA l : l.level = "warn")

-----------------------------------------------------------------------------
(* C1 *)

\* C1 as stated: a request that tries to leave the served directory, by
\* parent-directory segments after the prefix or through a path that leads
\* outside, never yields a 200 with content from outside and always ends
\* as a 403 or a 404 response.
C1_Original ==
    \A i \in Calls :
        (/\ calls[i].pc \in {"done", "panicked"}
         /\ \/ TraversalRequest(calls[i].arg)
            \/ Done(i) /\ LeadsOutside(fs, dir, calls[i].path))
        => /\ calls[i].res.tag = "Ok"
           /\ calls[i].res.status \in {Forbidden, NotFound}

\* C1 amended: no 200 response streams a file from outside the served
\* directory; a path that reaches the open and leads outside it is answered
\* 403 with an empty body; parent-directory segments never reach the open
\* (the URL path holds none), and a traversal request either panics on the
\* prefix mismatch or is served as the resolved path under the prefix.
C1_NoLeak ==
    \A i \in Calls :
        /\ (Done(i) /\ calls[i].res.tag = "Ok" /\ calls[i].res.status = Ok)
             => calls[i].res.origin = "inside"
        /\ (Done(i) /\ LeadsOutside(fs, dir, calls[i].path))
             => /\ calls[i].res.tag = "Ok"
                /\ calls[i].res.status = Forbidden
                /\ calls[i].res.body = ""
        /\ Active(i) => ~HasDotDot(calls[i].url) /\ ~HasDotDot(calls[i].path)
        /\ (Active(i) /\ TraversalRequest(calls[i].arg))
             => \/ Panicked(i) /\ ~IsPrefixOf(StaticPrefix, calls[i].url)
                \/ ~Panicked(i) /\ IsPrefixOf(StaticPrefix, calls[i].url)

\* A call for the link that leaves the served directory has been answered 403.
C1_Witness ==
    \E i \in Calls :
        /\ Done(i) /\ calls[i].path = LINK
        /\ LeadsOutside(fs, dir, calls[i].path)
        /\ calls[i].res.status = Forbidden

-----------------------------------------------------------------------------
(* C2 *)

\* C2: for every readable file p under the served directory, a call for
\* the prefix, optional extra '/', and p (the request names that path, or
\* the URL path is that text) does not panic and returns Ok with status 200
\* and the contents of p as its body.
C2_ServesFile ==
    \A i \in Calls : \A e \in ServedFiles(fs, dir) : \A k \in 0..MaxSlashes :
        (/\ Active(i)
         /\ \/ calls[i].arg = Under(k, RelOf(dir, e))
            \/ calls[i].url = StaticPrefix \o Slashes(k) \o RelOf(dir, e))
        => /\ ~Panicked(i)
           /\ Done(i) => /\ calls[i].res.tag = "Ok"
                         /\ calls[i].res.status = Ok
                         /\ calls[i].res.body = e.data
                         /\ ~calls[i].res.readErr

-----------------------------------------------------------------------------
(* C3 *)

\* C3: for every relative path p that names nothing under the served
\* directory, a call whose URL path is the prefix, optional extra '/', and
\* p returns Ok with status 404 and an empty body, after a warning that
\* names the missing path.
C3_MissingIs404 ==
    \A i \in Calls : \A rel \in MissingRels(fs, dir) : \A k \in 0..MaxSlashes :
        (Done(i) /\ calls[i].url = StaticPrefix \o Slashes(k) \o rel)
        => /\ calls[i].res.tag = "Ok"
           /\ calls[i].res.status = NotFound
           /\ calls[i].res.body = ""
           /\ Warnings(i) = <<WarnMissing(rel)>>

-----------------------------------------------------------------------------
(* C4 *)

\* C4: when the open has failed with kind PermissionDenied, the call has
\* returned Ok with status 403 and an empty body (none of the error's
\* text), after one warning that names the denied relative path.
C4_DeniedIs403 ==
    \A i \in Calls :
        (Done(i) /\ ~calls[i].opened.ok /\ calls[i].opened.kind = "PermissionDenied")
        => /\ calls[i].res.tag = "Ok"
           /\ calls[i].res.status = Forbidden
           /\ calls[i].res.body = ""
           /\ calls[i].res.body # calls[i].opened.text
           /\ Warnings(i) = <<WarnDenied(calls[i].path)>>

\* A file in the directory of mode 000 has been refused.
C4_Witness ==
    \E i \in Calls :
        /\ Done(i) /\ calls[i].path = Rel(PRIV, FOO)
        /\ calls[i].opened.kind = "PermissionDenied"
        /\ calls[i].res.status = Forbidden

-----------------------------------------------------------------------------
(* C5 *)

\* C5: when the open has failed with a kind other than PermissionDenied
\* and NotFound, the call has returned Err with that error, not a
\* response, and it has attempted the open once.
C5_OtherPropagates ==
    \A i \in Calls :
        /\ calls[i].opens <= 1
        /\ (Done(i) /\ ~calls[i].opened.ok
              /\ calls[i].opened.kind \notin {"PermissionDenied", "NotFound"})
           => /\ calls[i].res.tag = "Err"
              /\ calls[i].res.err = calls[i].opened.kind
              /\ calls[i].res.status \notin {Ok, Forbidden, NotFound}
              /\ calls[i].opens = 1
              /\ Warnings(i) = <<>>

\* The open of the link that names itself has failed and the error was
\* handed on.
C5_Witness ==
    \E i \in Calls :
        /\ Done(i) /\ calls[i].opened.kind = "FilesystemLoop"
        /\ calls[i].res.tag = "Err"

-----------------------------------------------------------------------------
(* C6 *)

\* C6: no step changes the configuration (prefix, directory handle) while
\* the file tree is unchanged, and whatever the interleaving two finished
\* invocations with the same URL path have the same status, body and log.
C6_Reentrant ==
    /\ [][prefix' = prefix /\ dir' = dir]_vars
    /\ [](\A i, j \in Calls :
            (Done(i) /\ Done(j) /\ calls[i].url = calls[j].url)
            => /\ calls[i].res = calls[j].res
               /\ calls[i].log = calls[j].log)

\* Two invocations have both answered /static/foo.
C6_Witness ==
    \E i, j \in Calls :
        /\ i # j /\ Done(i) /\ Done(j)
        /\ calls[i].url = StaticPrefix \o FOO /\ calls[j].url = calls[i].url
        /\ calls[i].res.status = Ok /\ calls[i].res.body = "Foobar"

-----------------------------------------------------------------------------
(* C7 *)

\* C7: when "/static/" (the prefix without its '*') is not a prefix of the
\* URL path, the call has panicked: it holds no response and no error, has
\* attempted no open and logged nothing; and it panics in no other case.
C7_MismatchPanics ==
    \A i \in Calls :
        /\ (Active(i) /\ ~IsPrefixOf(StaticPrefix, calls[i].url))
           => /\ Panicked(i)
              /\ calls[i].res = NoRes
              /\ calls[i].opens = 0
              /\ calls[i].log = <<>>
        /\ Panicked(i) => ~IsPrefixOf(StaticPrefix, calls[i].url)

\* A call for /elsewhere/foo has panicked.
C7_Witness ==
    \E i \in Calls :
        /\ Panicked(i)
        /\ calls[i].url = <<Slash>> \o ELSEWHERE \o <<Slash>> \o FOO

-----------------------------------------------------------------------------
(* C8 *)

\* The text holds no "." or ".." segment, however spelled.
NoDotSegment(str) ==
    \A n \in 1..Len(RawSegments(str)) :
        RawSegments(str)[n] \notin DotForms \cup DotDotForms

\* The first segment of the text is "..", however spelled.
StartsWithDotDot(str) == Head(RawSegments(str)) \in DotDotForms

\* The relative paths of the model of either sort.
NoDotRels == { p \in Rels : NoDotSegment(p) }
DotDotRels == { p \in Rels : StartsWithDotDot(p) }

-----------------------------------------------------------------------------
(* C9 *)

\* C9: whether the configured prefix is "/static/*" or "/static/", for
\* every URL path under "/static/" the call does not panic and its
\* relative path is the URL path without its first "/static/" (one
\* occurrence only) and without the '/' that then lead it.
C9_PrefixStrippedOnce ==
    \A i \in Calls :
        (Active(i) /\ IsPrefixOf(StaticPrefix, calls[i].url))
        => /\ ~Panicked(i)
           /\ calls[i].path = trim_start_matches(After(i, Len(StaticPrefix)), Slash)

\* Under the prefix "/static/*", /static/static/foo has given static/foo.
C9_Witness ==
    \E i \in Calls :
        /\ prefix = StaticPrefix \o <<Star>>
        /\ Active(i) /\ calls[i].url = StaticPrefix \o Rel(STATIC, FOO)
        /\ calls[i].path = Rel(STATIC, FOO)

-----------------------------------------------------------------------------
(* C10 *)

\* C10: an invocation that has not panicked has logged exactly one
\* informational line, naming the relative path, before attempting the open
\* (it is the whole log while the open is pending); after the open the log
\* gains one warning naming the path exactly when the answer is 403 or
\* 404, and nothing otherwise; a panicked invocation has logged nothing.
C10_LogOrder ==
    \A i \in Calls :
        /\ calls[i].pc \in {"idle", "panicked"} => calls[i].log = <<>>
        /\ calls[i].pc = "opening"
             => calls[i].opens = 0 /\ calls[i].log = <<Info(calls[i].path)>>
        /\ Done(i) =>
             /\ calls[i].opens = 1
             /\ calls[i].log # <<>> /\ Head(calls[i].log) = Info(calls[i].path)
             /\ Tail(calls[i].log) = Warnings(i)
             /\ IF calls[i].res.tag = "Ok"
                   /\ calls[i].res.status \in {Forbidden, NotFound}
                THEN /\ ~calls[i].opened.ok
                     /\ Len(Warnings(i)) = 1
                     /\ Warnings(i)[1].path = calls[i].path
                ELSE Warnings(i) = <<>>

\* An invocation whose open failed with a propagated error has logged only
\* the informational line.
C10_Witness ==
    \E i \in Calls :
        /\ Done(i) /\ calls[i].res.tag = "Err"
        /\ calls[i].log = <<Info(calls[i].path)>>

=============================================================================
